---- MODULE Spec2Model ----
(***************************************************************************)
(* Model of the configuration RPC namespace of era-test-node               *)
(* (src/src/configuration_api.rs): ConfigurationApiNamespace holds         *)
(* node: Arc<RwLock<InMemoryNodeInner<S>>> and every RPC handler locks it.  *)
(* Each handler is split at the points where other handlers can run:       *)
(* the call, the lock acquisition, the accesses made under the guard, and  *)
(* the return (which drops the guard).                                     *)
(***************************************************************************)
EXTENDS Naturals, FiniteSets, Sequences, TLC

\* ------------------------------------------------------------------ bounds
\* Number of concurrent RPC request handlers.
NumThreads == 2

Threads == 1..NumThreads

\* ------------------------------------------------------------ setting codec
\* node::ShowCalls, node::ShowStorageLogs, node::ShowVMDetails,
\* node::ShowGasDetails: closed enumerations.  A variant is written
\* <<type, member>> so that a value is not its own rendering.
ShowCalls == {<<"ShowCalls", m>> : m \in {"None", "User", "System", "All"}}
ShowStorageLogs == {<<"ShowStorageLogs", m>> : m \in {"None", "Read", "Write", "All"}}
ShowVMDetails == {<<"ShowVMDetails", m>> : m \in {"None", "All"}}
ShowGasDetails == {<<"ShowGasDetails", m>> : m \in {"None", "All"}}

\* The outcome Err(_) of value.parse::<T>().
Invalid == <<"Err", "unknown value">>

\* str::to_lowercase on the spellings the model feeds in.
ToLowercase(s) ==
    CASE s = "None" -> "none"
      [] s = "User" -> "user"
      [] s = "System" -> "system"
      [] s = "All" -> "all"
      [] s = "Read" -> "read"
      [] s = "Write" -> "write"
      [] s = "ALL" -> "all"
      [] OTHER -> s

\* <ShowCalls as FromStr>::from_str: the recognized spellings, any case.
ParseShowCalls(s) ==
    CASE ToLowercase(s) = "none" -> <<"ShowCalls", "None">>
      [] ToLowercase(s) = "user" -> <<"ShowCalls", "User">>
      [] ToLowercase(s) = "system" -> <<"ShowCalls", "System">>
      [] ToLowercase(s) = "all" -> <<"ShowCalls", "All">>
      [] OTHER -> Invalid

\* <ShowStorageLogs as FromStr>::from_str.
ParseShowStorageLogs(s) ==
    CASE ToLowercase(s) = "none" -> <<"ShowStorageLogs", "None">>
      [] ToLowercase(s) = "read" -> <<"ShowStorageLogs", "Read">>
      [] ToLowercase(s) = "write" -> <<"ShowStorageLogs", "Write">>
      [] ToLowercase(s) = "all" -> <<"ShowStorageLogs", "All">>
      [] OTHER -> Invalid

\* <ShowVMDetails as FromStr>::from_str.
ParseShowVMDetails(s) ==
    CASE ToLowercase(s) = "none" -> <<"ShowVMDetails", "None">>
      [] ToLowercase(s) = "all" -> <<"ShowVMDetails", "All">>
      [] OTHER -> Invalid

\* <ShowGasDetails as FromStr>::from_str.
ParseShowGasDetails(s) ==
    CASE ToLowercase(s) = "none" -> <<"ShowGasDetails", "None">>
      [] ToLowercase(s) = "all" -> <<"ShowGasDetails", "All">>
      [] OTHER -> Invalid

\* Display (to_string) of a variant: its canonical spelling.
Render(v) == v[2]

\* ------------------------------------------------------------------ inputs
\* The operations of ConfigurationApiNamespaceT.
EnumSetters == {"config_set_show_calls", "config_set_show_storage_logs",
                "config_set_show_vm_details", "config_set_show_gas_details"}
LogOps == {"config_set_log_level", "config_set_logging"}
Getters == {"config_get_show_calls", "config_get_current_timestamp"}

\* Arguments a caller may pass to each operation (for config_set_log_level
\* two of the variants of observability::LogLevel, which the RPC layer has
\* decoded before the call).
Inputs(o) ==
    CASE o = "config_set_show_calls" -> {"None", "User", "bogus"}
      [] o = "config_set_show_storage_logs" -> {"Read", "bogus"}
      [] o = "config_set_show_vm_details" -> {"All", ""}
      [] o = "config_set_show_gas_details" -> {"ALL", "none "}
      [] o = "config_set_resolve_hashes" -> BOOLEAN
      [] o = "config_set_log_level" -> {"debug", "error"}
      [] o = "config_set_logging" -> {"x=trace", "bogus"}
      [] OTHER -> {"-"}

Ops == EnumSetters \cup LogOps \cup Getters \cup {"config_set_resolve_hashes"}

\* The field an enumerated setter is about, and its parser.
FieldOf(o) ==
    CASE o = "config_set_show_calls" -> "show_calls"
      [] o = "config_set_show_storage_logs" -> "show_storage_logs"
      [] o = "config_set_show_vm_details" -> "show_vm_details"
      [] o = "config_set_show_gas_details" -> "show_gas_details"
      [] o = "config_set_resolve_hashes" -> "resolve_hashes"
      [] o = "config_get_show_calls" -> "show_calls"
      [] o = "config_get_current_timestamp" -> "current_timestamp"
      [] o = "get_resolve_hashes" -> "resolve_hashes"
      [] OTHER -> "observability"

Parse(o, s) ==
    CASE o = "config_set_show_calls" -> ParseShowCalls(s)
      [] o = "config_set_show_storage_logs" -> ParseShowStorageLogs(s)
      [] o = "config_set_show_vm_details" -> ParseShowVMDetails(s)
      [] o = "config_set_show_gas_details" -> ParseShowGasDetails(s)

\* ------------------------------------------------------------------ results
NoRet == [kind |-> "none"]
Ok(v) == [kind |-> "Ok", val |-> v]
\* Err(into_jsrpc_error(Web3Error::InternalError))
InternalError == [kind |-> "Err", val |-> "InternalError"]
\* The handler unwound: .unwrap() on Err(PoisonError).
PoisonPanic == [kind |-> "panic", val |-> "PoisonError"]

\* ------------------------------------------------------------------- state
VARIABLES
    node,        \* InMemoryNodeInner: the fields this namespace reads or writes
    readers,     \* threads holding an RwLockReadGuard on node
    writer,      \* thread holding the RwLockWriteGuard on node, 0 when none
    poisoned,    \* the RwLock's poison flag
    pc,          \* per thread: idle, lock, held, written, bridge, done
    op,          \* per thread: the handler it runs
    arg,         \* per thread: the handler's argument
    ret,         \* per thread: what the handler returned
    bridged,     \* per thread: "no", or the outcome of its observability call
    pre,         \* per thread in a rejected set: its field, rendered, when called
    seen,        \* per thread in a rejected set: the renderings its field has
                 \* held since the call
    before,      \* per thread in an accepted set: <<v>>, the field as it was
                 \* just before the thread assigned it
    lin,         \* the record after the operations linearized so far
    linRet,      \* per thread: what the sequential object answered
    lastSetArg,  \* per enumerated field: the argument of the latest set that
                 \* wrote it ("" before any)
    rhWritten,   \* the initial resolve_hashes and the argument of every
                 \* config_set_resolve_hashes that has written
    rhLast,      \* <<v>>: v is the argument of the latest
                 \* config_set_resolve_hashes to take the write guard
    lockCalls,   \* per thread: the calls of read() and write() on the lock
                 \* its handler has made so far, in order
    queue        \* the threads that have yet to call read() or write(), in
                 \* the order they were dispatched

lockVars == <<readers, writer, poisoned>>
callVars == <<op, arg, pre, lockCalls, queue>>
histVars == <<lastSetArg, rhWritten, before>>
vars == <<node, readers, writer, poisoned, pc, op, arg, ret, bridged, pre,
          seen, before, lin, linRet, lastSetArg, rhWritten, rhLast, lockCalls,
          queue>>

Toggles == {"show_calls", "show_storage_logs", "show_vm_details",
            "show_gas_details", "resolve_hashes"}
EnumFields == Toggles \ {"resolve_hashes"}

\* The toggles of a node record.
TogglesOf(n) == [f \in Toggles |-> n[f]]

\* InMemoryNodeInner as the node builds it: every toggle at its default,
\* observability one of obs ("None": no subsystem, "Some": configured).
InitWith(obs) ==
    /\ \E o \in obs :
          node = [show_calls |-> <<"ShowCalls", "None">>,
                  show_storage_logs |-> <<"ShowStorageLogs", "None">>,
                  show_vm_details |-> <<"ShowVMDetails", "None">>,
                  show_gas_details |-> <<"ShowGasDetails", "None">>,
                  resolve_hashes |-> FALSE,
                  current_timestamp |-> 1000,
                  observability |-> o]
    /\ readers = {}
    /\ writer = 0
    /\ poisoned = FALSE
    /\ pc = [t \in Threads |-> "idle"]
    /\ op = [t \in Threads |-> "-"]
    /\ arg = [t \in Threads |-> "-"]
    /\ ret = [t \in Threads |-> NoRet]
    /\ bridged = [t \in Threads |-> "no"]
    /\ pre = [t \in Threads |-> "-"]
    /\ seen = [t \in Threads |-> {}]
    /\ before = [t \in Threads |-> <<>>]
    /\ lin = node
    /\ linRet = [t \in Threads |-> NoRet]
    /\ lastSetArg = [f \in EnumFields |-> ""]
    /\ rhWritten = {FALSE}
    /\ rhLast = <<>>
    /\ lockCalls = [t \in Threads |-> <<>>]
    /\ queue = <<>>

Init == InitWith({"None", "Some"})

\* ------------------------------------------------- the sequential object
\* What one operation does to the record, and answers, when it runs alone:
\* a get answers the field; an accepted set stores its value and answers
\* it; a rejected set answers as a get.
SeqApply(s, o, a) ==
    CASE o \in EnumSetters ->
            IF Parse(o, a) = Invalid
              THEN [state |-> s, ret |-> Ok(Render(s[FieldOf(o)]))]
              ELSE [state |-> [s EXCEPT ![FieldOf(o)] = Parse(o, a)],
                    ret |-> Ok(Render(Parse(o, a)))]
      [] o = "config_set_resolve_hashes" ->
            [state |-> [s EXCEPT !.resolve_hashes = a], ret |-> Ok(a)]
      [] o = "config_get_show_calls" ->
            [state |-> s, ret |-> Ok(Render(s.show_calls))]
      [] OTHER -> [state |-> s, ret |-> Ok(s[FieldOf(o)])]

\* The operation of thread t takes effect at this step.
Linearize(t) ==
    /\ lin' = SeqApply(lin, op[t], arg[t]).state
    /\ linRet' = [linRet EXCEPT ![t] = SeqApply(lin, op[t], arg[t]).ret]

\* A rejected set that has been called and has not answered yet.
Rejecting(u) ==
    /\ pc[u] \in {"lock", "held"}
    /\ op[u] \in EnumSetters
    /\ Parse(op[u], arg[u]) = Invalid

\* Bookkeeping of an assignment by thread t: the field as it was, the
\* argument that wrote it, and what every waiting rejected set can now see.
RecordWrite(t) ==
    /\ before' = [before EXCEPT ![t] = <<node[FieldOf(op[t])]>>]
    /\ IF op[t] = "config_set_resolve_hashes"
         THEN rhWritten' = rhWritten \cup {arg[t]} /\ UNCHANGED lastSetArg
         ELSE lastSetArg' = [lastSetArg EXCEPT ![FieldOf(op[t])] = arg[t]]
              /\ UNCHANGED rhWritten
    /\ seen' = [u \in Threads |->
                   IF Rejecting(u)
                     THEN seen[u] \cup {Render(node'[FieldOf(op[u])])}
                     ELSE seen[u]]

\* ------------------------------------------------------------------ RwLock
\* The sequence q without thread t.
Without(q, t) == SelectSeq(q, LAMBDA u : u # t)

\* RwLock::read: waits while a writer holds the lock.
CanRead == writer = 0
\* RwLock::write: waits while anyone holds the lock.
CanWrite == writer = 0 /\ readers = {}

\* The handler has its result; the guard it holds, if any, is dropped.
Finish(t, r) ==
    /\ pc' = [pc EXCEPT ![t] = "done"]
    /\ ret' = [ret EXCEPT ![t] = r]
    /\ readers' = readers \ {t}
    /\ writer' = IF writer = t THEN 0 ELSE writer
    /\ UNCHANGED poisoned

\* self.node.read().unwrap(): a read guard, or a panic on a poisoned lock.
ReadUnwrap(t) ==
    /\ pc[t] = "lock"
    /\ CanRead
    /\ lockCalls' = [lockCalls EXCEPT ![t] = Append(@, "read")]
    /\ queue' = Without(queue, t)
    /\ IF poisoned
         THEN Finish(t, PoisonPanic)
         ELSE /\ readers' = readers \cup {t}
              /\ pc' = [pc EXCEPT ![t] = "held"]
              /\ UNCHANGED <<writer, poisoned, ret>>
    /\ UNCHANGED <<node, op, arg, pre, bridged, seen, lin, linRet, histVars, rhLast>>

\* WriteUnwrap with read() in place of write().
WriteUnwrapAsRead(t) ==
    /\ pc[t] = "lock"
    /\ CanRead
    /\ lockCalls' = [lockCalls EXCEPT ![t] = Append(@, "read")]
    /\ queue' = Without(queue, t)
    /\ IF poisoned
         THEN Finish(t, PoisonPanic) /\ UNCHANGED rhLast
         ELSE /\ readers' = readers \cup {t}
              /\ pc' = [pc EXCEPT ![t] = "held"]
              /\ rhLast' = IF op[t] = "config_set_resolve_hashes"
                             THEN <<arg[t]>> ELSE rhLast
              /\ UNCHANGED <<writer, poisoned, ret>>
    /\ UNCHANGED <<node, op, arg, pre, bridged, seen, lin, linRet, histVars>>

\* self.node.write().unwrap(): the write guard, or a panic on a poisoned lock.
WriteUnwrap(t) ==
    /\ pc[t] = "lock"
    /\ CanWrite
    /\ lockCalls' = [lockCalls EXCEPT ![t] = Append(@, "write")]
    /\ queue' = Without(queue, t)
    /\ IF poisoned
         THEN Finish(t, PoisonPanic) /\ UNCHANGED rhLast
         ELSE /\ writer' = t
              /\ pc' = [pc EXCEPT ![t] = "held"]
              /\ rhLast' = IF op[t] = "config_set_resolve_hashes"
                             THEN <<arg[t]>> ELSE rhLast
              /\ UNCHANGED <<readers, poisoned, ret>>
    /\ UNCHANGED <<node, op, arg, pre, bridged, seen, lin, linRet, histVars>>

\* ReadMapErr with write() in place of read().
WriteMapErr(t) ==
    /\ pc[t] = "lock"
    /\ CanWrite
    /\ lockCalls' = [lockCalls EXCEPT ![t] = Append(@, "write")]
    /\ queue' = Without(queue, t)
    /\ IF poisoned
         THEN Finish(t, InternalError)
         ELSE /\ writer' = t
              /\ pc' = [pc EXCEPT ![t] = "held"]
              /\ UNCHANGED <<readers, poisoned, ret>>
    /\ UNCHANGED <<node, op, arg, pre, bridged, seen, lin, linRet, histVars, rhLast>>

\* ReadMapErr recovering the guard from the PoisonError (as
\* read().unwrap_or_else(PoisonError::into_inner) would) and carrying on.
ReadIgnoringPoison(t) ==
    /\ pc[t] = "lock"
    /\ CanRead
    /\ lockCalls' = [lockCalls EXCEPT ![t] = Append(@, "read")]
    /\ queue' = Without(queue, t)
    /\ readers' = readers \cup {t}
    /\ pc' = [pc EXCEPT ![t] = "held"]
    /\ UNCHANGED <<writer, poisoned, ret>>
    /\ UNCHANGED <<node, op, arg, pre, bridged, seen, lin, linRet, histVars, rhLast>>

\* self.node.read().map_err(|_| into_jsrpc_error(Web3Error::InternalError))?
ReadMapErr(t) ==
    /\ pc[t] = "lock"
    /\ CanRead
    /\ lockCalls' = [lockCalls EXCEPT ![t] = Append(@, "read")]
    /\ queue' = Without(queue, t)
    /\ IF poisoned
         THEN Finish(t, InternalError)
         ELSE /\ readers' = readers \cup {t}
              /\ pc' = [pc EXCEPT ![t] = "held"]
              /\ UNCHANGED <<writer, poisoned, ret>>
    /\ UNCHANGED <<node, op, arg, pre, bridged, seen, lin, linRet, histVars, rhLast>>

\* A thread of the node outside this namespace panics while it holds the
\* write guard: the guard is dropped and the lock is poisoned for good.
WriterPanics ==
    /\ CanWrite
    /\ ~poisoned
    /\ poisoned' = TRUE
    /\ UNCHANGED <<node, readers, writer, pc, callVars, ret, bridged, seen,
                   lin, linRet, histVars, rhLast>>

\* ---------------------------------------------------------------- handlers
\* Ok(reader.<f>.to_string()); the read guard is dropped on return.
ReturnRendered(t, f) ==
    /\ pc[t] = "held"
    /\ t \in readers
    /\ Finish(t, Ok(Render(node[f])))
    /\ Linearize(t)
    /\ UNCHANGED <<node, callVars, bridged, seen, histVars, rhLast>>

\* Ok(reader.<f>); the read guard is dropped on return.
ReturnCopied(t, f) ==
    /\ pc[t] = "held"
    /\ t \in readers
    /\ Finish(t, Ok(node[f]))
    /\ Linearize(t)
    /\ UNCHANGED <<node, callVars, bridged, seen, histVars, rhLast>>

config_get_show_calls(t) ==
    /\ op[t] = "config_get_show_calls"
    /\ \/ ReadUnwrap(t)
       \/ ReturnRendered(t, "show_calls")

config_get_current_timestamp(t) ==
    /\ op[t] = "config_get_current_timestamp"
    /\ \/ ReadUnwrap(t)
       \/ ReturnCopied(t, "current_timestamp")

\* A read of resolve_hashes by the node: read guard, copy, drop.
get_resolve_hashes(t) ==
    /\ op[t] = "get_resolve_hashes"
    /\ \/ ReadUnwrap(t)
       \/ ReturnCopied(t, "resolve_hashes")

\* AssignField with the write guard dropped right after the assignment (the
\* write in a block of its own, the value returned read afterwards).
AssignFieldThenUnlock(t, f, v) ==
    /\ pc[t] = "held"
    /\ writer = t
    /\ node' = [node EXCEPT ![f] = v]
    /\ pc' = [pc EXCEPT ![t] = "written"]
    /\ writer' = 0
    /\ Linearize(t)
    /\ RecordWrite(t)
    /\ UNCHANGED <<readers, poisoned, callVars, ret, bridged, rhLast>>

\* inner.<f> = v, through the write guard.
AssignField(t, f, v) ==
    /\ pc[t] = "held"
    /\ writer = t
    /\ node' = [node EXCEPT ![f] = v]
    /\ pc' = [pc EXCEPT ![t] = "written"]
    /\ Linearize(t)
    /\ RecordWrite(t)
    /\ UNCHANGED <<lockVars, callVars, ret, bridged, rhLast>>

\* Ok(inner.<f>.to_string()); the write guard is dropped on return.
ReadBackRendered(t, f) ==
    /\ pc[t] = "written"
    /\ Finish(t, Ok(Render(node[f])))
    /\ UNCHANGED <<node, callVars, bridged, seen, lin, linRet, histVars, rhLast>>

\* Ok(inner.<f>); the write guard is dropped on return.
ReadBackCopied(t, f) ==
    /\ pc[t] = "written"
    /\ Finish(t, Ok(node[f]))
    /\ UNCHANGED <<node, callVars, bridged, seen, lin, linRet, histVars, rhLast>>

\* EnumSetter with the Err(_) arm replaced by the type's default value
\* (as value.parse().unwrap_or_default() would): the default is assigned.
EnumSetterDefaultsOnErr(t, o, fErr, fSet, fBack) ==
    \/ WriteUnwrap(t)
    \/ AssignField(t, fSet, IF Parse(o, arg[t]) = Invalid
                              THEN Parse(o, "none") ELSE Parse(o, arg[t]))
    \/ ReadBackRendered(t, fBack)

\* The body shared by the four enumerated setters, o naming the handler
\* (and so the type parsed): on Err(_) return field fErr under a read guard;
\* on Ok take the write guard, assign field fSet and return field fBack.
EnumSetter(t, o, fErr, fSet, fBack) ==
    \/ /\ Parse(o, arg[t]) = Invalid
       /\ \/ ReadUnwrap(t)
          \/ ReturnRendered(t, fErr)
    \/ /\ Parse(o, arg[t]) # Invalid
       /\ \/ WriteUnwrap(t)
          \/ AssignField(t, fSet, Parse(o, arg[t]))
          \/ ReadBackRendered(t, fBack)

\* config_set_show_calls answering show_storage_logs in its Err(_) arm.
config_set_show_calls_fallback_pasted(t) ==
    /\ op[t] = "config_set_show_calls"
    /\ EnumSetter(t, "config_set_show_calls",
                  "show_storage_logs", "show_calls", "show_calls")

config_set_show_calls(t) ==
    /\ op[t] = "config_set_show_calls"
    /\ EnumSetter(t, "config_set_show_calls",
                  "show_calls", "show_calls", "show_calls")

\* config_set_show_storage_logs returning show_calls (the line pasted from
\* config_set_show_calls and left as it was).
config_set_show_storage_logs_pasted(t) ==
    /\ op[t] = "config_set_show_storage_logs"
    /\ EnumSetter(t, "config_set_show_storage_logs",
                  "show_storage_logs", "show_storage_logs", "show_calls")

config_set_show_storage_logs(t) ==
    /\ op[t] = "config_set_show_storage_logs"
    /\ EnumSetter(t, "config_set_show_storage_logs",
                  "show_storage_logs", "show_storage_logs", "show_storage_logs")

\* config_set_show_vm_details assigning show_gas_details (the assignment
\* pasted from config_set_show_gas_details and left as it was).
config_set_show_vm_details_pasted(t) ==
    /\ op[t] = "config_set_show_vm_details"
    /\ EnumSetter(t, "config_set_show_vm_details",
                  "show_vm_details", "show_gas_details", "show_vm_details")

config_set_show_vm_details(t) ==
    /\ op[t] = "config_set_show_vm_details"
    /\ EnumSetter(t, "config_set_show_vm_details",
                  "show_vm_details", "show_vm_details", "show_vm_details")

config_set_show_gas_details(t) ==
    /\ op[t] = "config_set_show_gas_details"
    /\ EnumSetter(t, "config_set_show_gas_details",
                  "show_gas_details", "show_gas_details", "show_gas_details")

\* config_set_resolve_hashes returning Ok(value) without the assignment.
config_set_resolve_hashes_unwritten(t) ==
    /\ op[t] = "config_set_resolve_hashes"
    /\ \/ WriteUnwrap(t)
       \/ AssignField(t, "resolve_hashes", node.resolve_hashes)
       \/ ReadBackCopied(t, "resolve_hashes")

\* config_set_resolve_hashes with inner.resolve_hashes ^= value.
config_set_resolve_hashes_xor(t) ==
    /\ op[t] = "config_set_resolve_hashes"
    /\ \/ WriteUnwrap(t)
       \/ AssignField(t, "resolve_hashes", node.resolve_hashes # arg[t])
       \/ ReadBackCopied(t, "resolve_hashes")

config_set_resolve_hashes(t) ==
    /\ op[t] = "config_set_resolve_hashes"
    /\ \/ WriteUnwrap(t)
       \/ AssignField(t, "resolve_hashes", arg[t])
       \/ ReadBackCopied(t, "resolve_hashes")

\* MatchObservability answering Ok(false) when there is no subsystem.
MatchObservabilityFalseOnNone(t) ==
    /\ pc[t] = "held"
    /\ t \in readers
    /\ IF node.observability = "None"
         THEN Finish(t, Ok(FALSE))
         ELSE /\ pc' = [pc EXCEPT ![t] = "bridge"]
              /\ UNCHANGED <<lockVars, ret>>
    /\ UNCHANGED <<node, callVars, bridged, seen, lin, linRet, histVars, rhLast>>

\* if let Some(observability) = &guard.observability: with None the guard
\* is dropped and Ok(true) returned; with Some the call into observability
\* begins, the guard (a temporary of the if-let scrutinee) still alive.
MatchObservability(t) ==
    /\ pc[t] = "held"
    /\ t \in readers
    /\ IF node.observability = "None"
         THEN Finish(t, Ok(TRUE))
         ELSE /\ pc' = [pc EXCEPT ![t] = "bridge"]
              /\ UNCHANGED <<lockVars, ret>>
    /\ UNCHANGED <<node, callVars, bridged, seen, lin, linRet, histVars, rhLast>>

\* BridgeReturns with the Err(err) arm only logging, not returning.
BridgeReturnsErrIgnored(t) ==
    /\ pc[t] = "bridge"
    /\ \E outcome \in {"Ok", "Err"} :
          /\ bridged' = [bridged EXCEPT ![t] = outcome]
          /\ Finish(t, Ok(TRUE))
    /\ UNCHANGED <<node, callVars, seen, lin, linRet, histVars, rhLast>>

\* BridgeReturns with the Err(err) arm propagating the failure to the
\* caller as the internal error.
BridgeReturnsErrPropagated(t) ==
    /\ pc[t] = "bridge"
    /\ \E outcome \in {"Ok", "Err"} :
          /\ bridged' = [bridged EXCEPT ![t] = outcome]
          /\ Finish(t, IF outcome = "Ok" THEN Ok(TRUE) ELSE InternalError)
    /\ UNCHANGED <<node, callVars, seen, lin, linRet, histVars, rhLast>>

\* observability.set_log_level(..) / set_logging(..) returns: Ok(_) falls
\* through to Ok(true), Err(err) is logged and Ok(false) returned; the
\* guard is dropped either way.
BridgeReturns(t) ==
    /\ pc[t] = "bridge"
    /\ \E outcome \in {"Ok", "Err"} :
          /\ bridged' = [bridged EXCEPT ![t] = outcome]
          /\ Finish(t, Ok(outcome = "Ok"))
    /\ UNCHANGED <<node, callVars, seen, lin, linRet, histVars, rhLast>>

config_set_log_level(t) ==
    /\ op[t] = "config_set_log_level"
    /\ \/ ReadMapErr(t)
       \/ MatchObservability(t)
       \/ BridgeReturns(t)

config_set_logging(t) ==
    /\ op[t] = "config_set_logging"
    /\ \/ ReadMapErr(t)
       \/ MatchObservability(t)
       \/ BridgeReturns(t)

\* ------------------------------------------------------------------ callers
\* The RPC layer dispatches a request for an operation of S to a free thread.
Call(t, S) ==
    /\ pc[t] = "idle"
    /\ \E o \in S : \E a \in Inputs(o) :
          /\ op' = [op EXCEPT ![t] = o]
          /\ arg' = [arg EXCEPT ![t] = a]
          /\ IF o \in EnumSetters /\ Parse(o, a) = Invalid
               THEN /\ pre' = [pre EXCEPT ![t] = Render(node[FieldOf(o)])]
                    /\ seen' = [seen EXCEPT ![t] = {Render(node[FieldOf(o)])}]
               ELSE UNCHANGED <<pre, seen>>
    /\ pc' = [pc EXCEPT ![t] = "lock"]
    /\ queue' = Append(queue, t)
    /\ UNCHANGED <<node, lockVars, ret, bridged, lin, linRet, histVars, rhLast,
                   lockCalls>>

\* The response is delivered and the thread is free again.
Return(t) ==
    /\ pc[t] = "done"
    /\ pc' = [pc EXCEPT ![t] = "idle"]
    /\ op' = [op EXCEPT ![t] = "-"]
    /\ arg' = [arg EXCEPT ![t] = "-"]
    /\ pre' = [pre EXCEPT ![t] = "-"]
    /\ seen' = [seen EXCEPT ![t] = {}]
    /\ before' = [before EXCEPT ![t] = <<>>]
    /\ ret' = [ret EXCEPT ![t] = NoRet]
    /\ bridged' = [bridged EXCEPT ![t] = "no"]
    /\ linRet' = [linRet EXCEPT ![t] = NoRet]
    /\ lockCalls' = [lockCalls EXCEPT ![t] = <<>>]
    /\ UNCHANGED <<node, lockVars, lin, lastSetArg, rhWritten, rhLast, queue>>

\* Every operation of the namespace, from any thread.
Next ==
    \/ \E t \in Threads :
          \/ Call(t, Ops)
          \/ config_get_show_calls(t)
          \/ config_get_current_timestamp(t)
          \/ config_set_show_calls(t)
          \/ config_set_show_storage_logs(t)
          \/ config_set_show_vm_details(t)
          \/ config_set_show_gas_details(t)
          \/ config_set_resolve_hashes(t)
          \/ config_set_log_level(t)
          \/ config_set_logging(t)
          \/ Return(t)
    \/ WriterPanics

Spec == Init /\ [][Next]_vars

\* The getters and setters of Shared Node State only (no logging calls).
StateOps == Ops \ LogOps
NextState ==
    \/ \E t \in Threads :
          \/ Call(t, StateOps)
          \/ config_get_show_calls(t)
          \/ config_get_current_timestamp(t)
          \/ config_set_show_calls(t)
          \/ config_set_show_storage_logs(t)
          \/ config_set_show_vm_details(t)
          \/ config_set_show_gas_details(t)
          \/ config_set_resolve_hashes(t)
          \/ Return(t)
    \/ WriterPanics

SpecState == InitWith({"None"}) /\ [][NextState]_vars

\* Callers that only set resolve_hashes, beside threads of the node that
\* read it.
ResolveOps == {"config_set_resolve_hashes", "get_resolve_hashes"}
NextResolve ==
    \/ \E t \in Threads :
          \/ Call(t, ResolveOps)
          \/ get_resolve_hashes(t)
          \/ config_set_resolve_hashes(t)
          \/ Return(t)
    \/ WriterPanics

SpecResolve == InitWith({"None"}) /\ [][NextResolve]_vars

\* The two logging calls, beside setters of show_calls and resolve_hashes.
LoggingOps == LogOps \cup {"config_set_show_calls", "config_set_resolve_hashes"}
NextLog ==
    \/ \E t \in Threads :
          \/ Call(t, LoggingOps)
          \/ config_set_show_calls(t)
          \/ config_set_resolve_hashes(t)
          \/ config_set_log_level(t)
          \/ config_set_logging(t)
          \/ Return(t)
    \/ WriterPanics

SpecLog == Init /\ [][NextLog]_vars

\* A fair lock, and threads that keep running: one operation of each shape
\* (read().unwrap(), parse then write().unwrap() or read().unwrap(),
\* write().unwrap(), read().map_err(..)? then the bridge), the lock granted
\* in the order of dispatch, every dispatched handler scheduled until it
\* ends, every bridge call returning; callers may stop calling.
FairOps == {"config_get_show_calls", "config_set_show_vm_details",
            "config_set_resolve_hashes", "config_set_log_level"}

\* The lock serves thread t now: t is not waiting behind another thread.
InTurn(t) == pc[t] = "lock" => Head(queue) = t

\* A step of the handler on thread t, or the delivery of its response.
FairStep(t) ==
    /\ InTurn(t)
    /\ \/ config_get_show_calls(t)
       \/ config_set_show_vm_details(t)
       \/ config_set_resolve_hashes(t)
       \/ config_set_log_level(t)
       \/ Return(t)

NextFair ==
    \/ \E t \in Threads :
          \/ Call(t, FairOps)
          \/ InTurn(t) /\ config_get_show_calls(t)
          \/ InTurn(t) /\ config_set_show_vm_details(t)
          \/ InTurn(t) /\ config_set_resolve_hashes(t)
          \/ InTurn(t) /\ config_set_log_level(t)
          \/ Return(t)
    \/ WriterPanics

SpecFair ==
    /\ Init
    /\ [][NextFair]_vars
    /\ \A t \in Threads : WF_vars(FairStep(t))

\* ================================================================== claims
\* Thread t takes a step.
StepOf(t) == pc'[t] # pc[t]

\* Thread t runs an enumerated setter whose argument does not parse.
RejectedSet(t) == op[t] \in EnumSetters /\ Parse(op[t], arg[t]) = Invalid

\* Thread t has returned a value (it neither panicked nor returned Err).
ReturnedOk(t) == pc[t] = "done" /\ ret[t].kind = "Ok"

\* C1 as stated: a set whose argument does not parse returns the rendering
\* a get of its field would have returned immediately before the call.
C1_ReturnsPreCallValue ==
    \A t \in Threads :
        (RejectedSet(t) /\ ReturnedOk(t)) => ret[t] = Ok(pre[t])

\* C1, amended: no step of a set whose argument does not parse changes the
\* node, and the call returns the rendering of the value its field holds
\* when the call reads it under its read guard: a value the field has held
\* since the call, and the pre-call value when it has held no other.
C1_Fallback ==
    [][\A t \in Threads :
          (RejectedSet(t) /\ StepOf(t)) =>
              /\ node' = node
              /\ (pc'[t] = "done" /\ ret'[t].kind = "Ok") =>
                    /\ ret'[t] = Ok(Render(node[FieldOf(op[t])]))
                    /\ ret'[t].val \in seen[t]
                    /\ (seen[t] = {pre[t]} => ret'[t] = Ok(pre[t]))]_vars

\* A rejected set of show_calls has returned "User", the value another
\* call had stored.
C1_Witness ==
    \E t \in Threads :
        /\ RejectedSet(t) /\ ReturnedOk(t)
        /\ op[t] = "config_set_show_calls"
        /\ ret[t] = Ok("User")
        /\ node.show_calls = <<"ShowCalls", "User">>

\* Every config_set_resolve_hashes that was called has returned.
AllSetsReturned ==
    \A t \in Threads : op[t] = "config_set_resolve_hashes" => pc[t] = "done"

\* C2: under any interleaving of config_set_resolve_hashes calls and reads
\* of resolve_hashes, every read returns the initial value or the argument
\* of a call that has written, and once every call has returned the stored
\* value is the argument of the call that took the write guard last.
C2_ResolveHashes ==
    [][/\ \A t \in Threads :
             (op[t] \in ResolveOps /\ pc[t] # "done" /\ pc'[t] = "done"
                /\ ret'[t].kind = "Ok") => ret'[t].val \in rhWritten
       /\ (AllSetsReturned' /\ rhLast' # <<>>) =>
             node'.resolve_hashes = rhLast'[1]]_vars

\* A read has returned true, written by an earlier call, and a later call
\* has since stored false and returned.
C2_Witness ==
    \E t, u \in Threads :
        /\ op[t] = "get_resolve_hashes" /\ ReturnedOk(t) /\ ret[t].val = TRUE
        /\ op[u] = "config_set_resolve_hashes" /\ ReturnedOk(u)
        /\ arg[u] = FALSE
        /\ rhLast = <<FALSE>>
        /\ node.resolve_hashes = FALSE

\* C3: an operation whose lock acquisition fails on a poisoned lock returns
\* the internal error and does not panic.
C3_AccessFailureReported ==
    \A t \in Threads :
        (pc[t] = "done" /\ ret[t].kind # "Ok") => ret[t] = InternalError

\* C4: a thread inside the call into observability holds no guard on the
\* node.
C4_NoLockAcrossBridge ==
    \A t \in Threads :
        pc[t] = "bridge" => (t \notin readers /\ writer # t)

\* C5: the record is always the one the sequential object reaches by
\* applying, one at a time and each between its call and its return, the
\* operations that have taken effect, and every value an operation returns
\* is the answer the sequential object gave it.
C5_Linearizable ==
    /\ node = lin
    /\ \A t \in Threads : ReturnedOk(t) => ret[t] = linRet[t]

\* A get of show_calls called while a set was in flight has returned the
\* value that set stored.
C5_Witness ==
    \E t, u \in Threads :
        /\ op[t] = "config_get_show_calls" /\ ReturnedOk(t)
        /\ ret[t] = Ok("User")
        /\ op[u] = "config_set_show_calls" /\ arg[u] = "User"
        /\ ReturnedOk(u)

\* The variants of the type an enumerated setter parses.
ValuesOf(o) ==
    CASE o = "config_set_show_calls" -> ShowCalls
      [] o = "config_set_show_storage_logs" -> ShowStorageLogs
      [] o = "config_set_show_vm_details" -> ShowVMDetails
      [] o = "config_set_show_gas_details" -> ShowGasDetails

\* s is the canonical string of a variant of o's type.
Canonical(o, s) == s \in {Render(v) : v \in ValuesOf(o)}

\* The setter of an enumerated field.
SetterOf(f) == CHOOSE o \in EnumSetters : FieldOf(o) = f

\* C6: a set of an enumerated field to a canonical string v returns v, and
\* a read of that field (config_get_show_calls, or the value a rejected set
\* falls back to) made while that set is the latest write of the field
\* returns v.
C6_RoundTrip ==
    [][\A t \in Threads :
          /\ (op[t] \in EnumSetters /\ Canonical(op[t], arg[t])
                /\ pc[t] # "done" /\ pc'[t] = "done" /\ ret'[t].kind = "Ok")
                => ret'[t] = Ok(arg[t])
          /\ ((op[t] = "config_get_show_calls" \/ RejectedSet(t))
                /\ pc[t] = "held" /\ pc'[t] = "done"
                /\ Canonical(SetterOf(FieldOf(op[t])), lastSetArg[FieldOf(op[t])]))
                => ret'[t] = Ok(lastSetArg[FieldOf(op[t])])]_vars

\* set(show_calls, "User") has returned "User" and a get has then
\* returned "User".
C6_Witness ==
    \E t, u \in Threads :
        /\ op[t] = "config_get_show_calls" /\ ReturnedOk(t)
        /\ ret[t] = Ok("User")
        /\ op[u] = "config_set_show_calls" /\ arg[u] = "User"
        /\ ReturnedOk(u) /\ ret[u] = Ok("User")
        /\ lastSetArg.show_calls = "User"

\* C7: no step of config_set_log_level or config_set_logging changes a
\* toggle, and neither ever holds the write guard.
C7_Independence ==
    [][\A t \in Threads :
          (op[t] \in LogOps /\ StepOf(t)) =>
              /\ TogglesOf(node') = TogglesOf(node)
              /\ writer # t
              /\ writer' # t]_vars

\* A logging call whose bridge call failed has returned, with toggles
\* another thread had set.
C7_Witness ==
    \E t \in Threads :
        /\ op[t] \in LogOps /\ pc[t] = "done" /\ bridged[t] = "Err"
        /\ node.show_calls = <<"ShowCalls", "User">>
        /\ node.resolve_hashes = TRUE

\* C8: with a subsystem configured, a logging call that got its guard
\* returns Ok(true) exactly when the bridge call succeeded and Ok(false)
\* exactly when it failed; it returns an error only when the lock is
\* poisoned, and then the bridge was not called.
C8_BridgeOutcome ==
    \A t \in Threads :
        (pc[t] = "done" /\ op[t] \in LogOps /\ node.observability = "Some") =>
            IF ret[t].kind = "Ok"
              THEN /\ bridged[t] \in {"Ok", "Err"}
                   /\ ret[t].val = (bridged[t] = "Ok")
              ELSE /\ ret[t] = InternalError
                   /\ bridged[t] = "no"
                   /\ poisoned

\* One logging call has returned true after a bridge success and another
\* false after a bridge failure.
C8_Witness ==
    \E t, u \in Threads :
        /\ op[t] = "config_set_log_level" /\ ReturnedOk(t)
        /\ bridged[t] = "Ok" /\ ret[t].val = TRUE
        /\ op[u] = "config_set_logging" /\ ReturnedOk(u)
        /\ bridged[u] = "Err" /\ ret[u].val = FALSE

\* C9 as stated: with no subsystem configured a logging call returns true,
\* whatever its argument, and the bridge is not called.
C9_AlwaysTrue ==
    \A t \in Threads :
        (pc[t] = "done" /\ op[t] \in LogOps /\ node.observability = "None") =>
            /\ ret[t].kind = "Ok"
            /\ ret[t].val = TRUE
            /\ bridged[t] = "no"

\* C9, amended: with no subsystem configured a logging call never calls the
\* bridge, and returns true whatever its argument unless the lock is
\* poisoned, when it returns the internal error.
C9_NoBridge ==
    \A t \in Threads :
        (op[t] \in LogOps /\ node.observability = "None") =>
            /\ pc[t] # "bridge"
            /\ bridged[t] = "no"
            /\ pc[t] = "done" =>
                  IF ret[t].kind = "Ok"
                    THEN ret[t].val = TRUE
                    ELSE ret[t] = InternalError /\ poisoned

\* Both logging calls have returned true with no subsystem configured.
C9_Witness ==
    \E t, u \in Threads :
        /\ node.observability = "None"
        /\ op[t] = "config_set_log_level" /\ arg[t] = "debug"
        /\ op[u] = "config_set_logging" /\ arg[u] = "x=trace"
        /\ ReturnedOk(t) /\ ret[t].val = TRUE
        /\ ReturnedOk(u) /\ ret[u].val = TRUE

\* The value a setter's argument stands for, and the answer for a value.
WrittenValue(t) ==
    IF op[t] = "config_set_resolve_hashes" THEN arg[t]
    ELSE Parse(op[t], arg[t])
AnswerFor(t, v) ==
    IF op[t] = "config_set_resolve_hashes" THEN Ok(v) ELSE Ok(Render(v))

\* C10: an assignment of a field's own current value, or of the argument
\* that wrote the field last, leaves the node unchanged; a set that found
\* its field already at the value it was given returns that value; and what
\* a set returns depends on its argument alone, so the same set applied
\* twice returns what it returned once.
C10_Idempotent ==
    [][\A t \in Threads :
          /\ (pc[t] = "held" /\ pc'[t] = "written") =>
                /\ node[FieldOf(op[t])] = WrittenValue(t) => node' = node
                /\ (op[t] \in EnumSetters
                      /\ lastSetArg[FieldOf(op[t])] = arg[t]) => node' = node
          /\ (pc[t] = "written" /\ pc'[t] = "done") =>
                /\ node' = node
                /\ ret'[t] = AnswerFor(t, WrittenValue(t))
                /\ before[t] = <<WrittenValue(t)>> =>
                      ret'[t] = AnswerFor(t, before[t][1])
                /\ (op[t] \in EnumSetters
                      /\ before[t] # <<>>
                      /\ arg[t] = Render(before[t][1])) => ret'[t] = Ok(arg[t])]_vars

\* set(show_calls, "User") has returned "User" having found show_calls at
\* User, and set(resolve_hashes, true) has found resolve_hashes true.
C10_Witness ==
    \E t, u \in Threads :
        /\ op[t] = "config_set_show_calls" /\ arg[t] = "User"
        /\ before[t] = << <<"ShowCalls", "User">> >>
        /\ ReturnedOk(t) /\ ret[t] = Ok("User")
        /\ op[u] = "config_set_resolve_hashes" /\ arg[u] = TRUE
        /\ before[u] = <<TRUE>>
        /\ ReturnedOk(u)

\* C11: an operation that answers while the lock is not poisoned answers
\* Ok, whatever its argument and whatever the bridge did; an answer that is
\* not Ok is given only by the step that requested the lock and found it
\* poisoned, and an error response only by a logging call.
C11_Propagation ==
    [][\A t \in Threads :
          (pc[t] # "done" /\ pc'[t] = "done") =>
              /\ ~poisoned => ret'[t].kind = "Ok"
              /\ ret'[t].kind # "Ok" => (poisoned /\ pc[t] = "lock")
              /\ ret'[t].kind = "Err" =>
                    (ret'[t] = InternalError /\ op[t] \in LogOps)]_vars

\* With the lock sound, a set of an unparseable string has answered Ok and
\* a logging call whose bridge call failed has answered Ok(false).
C11_Witness ==
    \E t, u \in Threads :
        /\ ~poisoned
        /\ RejectedSet(t) /\ ReturnedOk(t)
        /\ op[u] \in LogOps /\ bridged[u] = "Err"
        /\ ReturnedOk(u) /\ ret[u].val = FALSE

\* Thread t is between write() and the return of a handler that writes.
InWriteSection(t) ==
    /\ pc[t] \in {"held", "written"}
    /\ \/ op[t] = "config_set_resolve_hashes"
       \/ op[t] \in EnumSetters /\ Parse(op[t], arg[t]) # Invalid

\* Thread t is between read() and the return of a handler that only reads.
InReadSection(t) ==
    /\ pc[t] \in {"held", "bridge"}
    /\ ~InWriteSection(t)

\* C12: a thread in a write section holds the write guard and no other
\* thread is in a read or write section with it; a thread in a read section
\* holds a read guard; every step that changes the node is taken by a
\* thread holding the write guard, and every step that uses a field of the
\* node by a thread holding a read guard or the write guard.
C12_AccessDiscipline ==
    /\ [](\A t \in Threads :
            /\ InWriteSection(t) <=> writer = t
            /\ InReadSection(t) <=> t \in readers
            /\ InWriteSection(t) =>
                  \A u \in Threads \ {t} :
                      ~InWriteSection(u) /\ ~InReadSection(u))
    /\ [][/\ node' # node =>
               \E t \in Threads :
                   StepOf(t) /\ writer = t /\ InWriteSection(t)
          /\ \A t \in Threads :
                (StepOf(t) /\ pc[t] \in {"held", "written"}) =>
                    (writer = t \/ t \in readers)]_vars

\* A setter has written under the write guard while a getter, called
\* meanwhile, waits for the lock.
C12_Witness ==
    \E t, u \in Threads :
        /\ op[t] = "config_set_show_calls" /\ pc[t] = "written"
        /\ writer = t
        /\ node.show_calls = <<"ShowCalls", "User">>
        /\ op[u] = "config_get_show_calls" /\ pc[u] = "lock"

\* C13: a set whose argument does not parse never holds the write guard
\* and never calls write(); it calls read() once, before it answers, and
\* makes no other call on the lock.
C13_RejectedSetOnlyReads ==
    \A t \in Threads :
        RejectedSet(t) =>
            /\ writer # t
            /\ lockCalls[t] = IF pc[t] = "lock" THEN <<>> ELSE <<"read">>

\* A set of show_gas_details to "none " has answered the current value
\* after one read().
C13_Witness ==
    \E t \in Threads :
        /\ op[t] = "config_set_show_gas_details" /\ arg[t] = "none "
        /\ RejectedSet(t) /\ ReturnedOk(t)
        /\ lockCalls[t] = <<"read">>
        /\ ret[t] = Ok(Render(node.show_gas_details))

\* The five setters.
Setters == EnumSetters \cup {"config_set_resolve_hashes"}

\* C14: a step changes a field of the node only if it is a step of that
\* field's own setter, so every setter leaves the other fields as they
\* were, a getter or logging call leaves all of them, and no step changes
\* current_timestamp or observability.
C14_Frame ==
    [][/\ \A f \in DOMAIN node :
             node'[f] # node[f] =>
                 /\ f \in Toggles
                 /\ \E t \in Threads :
                       StepOf(t) /\ op[t] \in Setters /\ FieldOf(op[t]) = f
       /\ node'.current_timestamp = node.current_timestamp
       /\ node'.observability = node.observability]_vars

\* config_set_show_vm_details has assigned All, with show_calls,
\* resolve_hashes and show_gas_details as earlier calls had left them.
C14_Witness ==
    \E t \in Threads :
        /\ op[t] = "config_set_show_vm_details" /\ pc[t] = "written"
        /\ before[t] = << <<"ShowVMDetails", "None">> >>
        /\ node.show_vm_details = <<"ShowVMDetails", "All">>
        /\ node.show_gas_details = <<"ShowGasDetails", "None">>
        /\ node.show_calls = <<"ShowCalls", "User">>
        /\ node.resolve_hashes = TRUE

\* Thread t runs a setter that assigns: config_set_resolve_hashes, or an
\* enumerated setter whose argument parses.
AcceptedSet(t) == op[t] \in Setters /\ ~RejectedSet(t)

\* C15: from its assignment to its return a set holds the write guard and
\* its field holds the value it assigned, whatever the other threads do;
\* the set returns that value: its argument for config_set_resolve_hashes,
\* the rendering of its parsed argument for an enumerated setter.
C15_ReturnsOwnWrite ==
    \A t \in Threads :
        AcceptedSet(t) =>
            /\ pc[t] = "written" =>
                  /\ writer = t
                  /\ node[FieldOf(op[t])] = WrittenValue(t)
            /\ ReturnedOk(t) => ret[t] = AnswerFor(t, WrittenValue(t))

\* Two concurrent sets of show_calls, to "User" and to "None", have each
\* returned their own value.
C15_Witness ==
    \E t, u \in Threads :
        /\ op[t] = "config_set_show_calls" /\ arg[t] = "User"
        /\ ReturnedOk(t) /\ ret[t] = Ok("User")
        /\ op[u] = "config_set_show_calls" /\ arg[u] = "None"
        /\ ReturnedOk(u) /\ ret[u] = Ok("None")

\* C16: the value a set returns for an argument that does not parse is a
\* rendering its field held at some instant between the call and the
\* return (the pre-call value, or one a concurrent set wrote meanwhile),
\* and is not the rejected argument.
C16_ReturnsHeldValue ==
    \A t \in Threads :
        (RejectedSet(t) /\ ReturnedOk(t)) =>
            /\ ret[t].val \in seen[t]
            /\ pre[t] \in seen[t]
            /\ ret[t].val # arg[t]
            /\ arg[t] \notin seen[t]

\* A rejected set of show_calls, called with show_calls at None, has
\* returned "User", written by a concurrent set before the read.
C16_Witness ==
    \E t, u \in Threads :
        /\ op[t] = "config_set_show_calls" /\ arg[t] = "bogus"
        /\ ReturnedOk(t) /\ ret[t] = Ok("User")
        /\ pre[t] = "None"
        /\ seen[t] = {"None", "User"}
        /\ op[u] = "config_set_show_calls" /\ arg[u] = "User"

\* C17: a logging call that requests the lock and finds it poisoned
\* returns the internal error in that step, holding no guard, with the node
\* as it was; it never reaches the bridge, whether or not a subsystem is
\* configured.
C17_PoisonedSkipsBridge ==
    /\ [](\A t \in Threads :
            (op[t] \in LogOps /\ pc[t] = "done" /\ ret[t].kind # "Ok") =>
                /\ ret[t] = InternalError
                /\ bridged[t] = "no"
                /\ poisoned)
    /\ [][\A t \in Threads :
             (op[t] \in LogOps /\ pc[t] = "lock" /\ StepOf(t) /\ poisoned) =>
                 /\ pc'[t] = "done"
                 /\ ret'[t] = InternalError
                 /\ bridged'[t] = "no"
                 /\ t \notin readers' /\ writer' # t
                 /\ node' = node]_vars

\* Both logging calls have returned the internal error with a subsystem
\* configured and toggles an earlier call had set.
C17_Witness ==
    \E t, u \in Threads :
        /\ node.observability = "Some"
        /\ poisoned
        /\ op[t] = "config_set_log_level" /\ pc[t] = "done"
        /\ ret[t] = InternalError /\ bridged[t] = "no"
        /\ op[u] = "config_set_logging" /\ pc[u] = "done"
        /\ ret[u] = InternalError /\ bridged[u] = "no"
        /\ node.show_calls = <<"ShowCalls", "User">>

\* The handler of thread t has been dispatched and has not ended.
InFlight(t) == pc[t] \in {"lock", "held", "written", "bridge"}

\* Thread t has returned a response, Ok or Err, and holds no guard.
Returned(t) ==
    /\ pc[t] = "done"
    /\ ret[t].kind \in {"Ok", "Err"}
    /\ t \notin readers /\ writer # t

\* The handler of thread t has ended, by a response or by a panic, and
\* holds no guard.
Ended(t) == pc[t] = "done" /\ t \notin readers /\ writer # t

\* Every handler calls read() or write() at most once, and not while it
\* holds a guard; while handlers are in flight one of them can step.
NoSelfDeadlock ==
    /\ [](\A t \in Threads : Len(lockCalls[t]) <= 1)
    /\ [][\A t \in Threads :
             Len(lockCalls'[t]) > Len(lockCalls[t]) =>
                 (pc[t] = "lock" /\ t \notin readers /\ writer # t)]_vars
    /\ []((\E t \in Threads : InFlight(t)) =>
             \E t \in Threads : InFlight(t) /\ ENABLED FairStep(t))

\* C18: every handler calls read() or write() at most once and never while
\* it holds a guard, so that while handlers are in flight one of them can
\* step; and with a fair lock and bridge calls that return, every handler
\* dispatched eventually returns a response, holding no guard.
C18_Terminates ==
    /\ NoSelfDeadlock
    /\ \A t \in Threads : InFlight(t) ~> Returned(t)

\* What of C18 the code does satisfy: the same, with a handler that ends
\* by a panic on a poisoned lock counted as ended.
C18_EndsOrPanics ==
    /\ NoSelfDeadlock
    /\ \A t \in Threads : InFlight(t) ~> Ended(t)

====
